---- MODULE Spec2Model ----
(***************************************************************************)
(* Model of src/main.py: the Flashfood product scraper.  One run of the    *)
(* script is one behaviour: credential validation, the fetch retry loop,   *)
(* the checks on the fetched document, the pandas transformation and the   *)
(* batched insert into the destination table, ending in a process exit.    *)
(***************************************************************************)
EXTENDS Integers, Sequences, FiniteSets, TLC

(***************************************************************************)
(* Bounds of the model.                                                    *)
(***************************************************************************)
\* Longest product list of a hand-built (small) document.
MaxProducts == 2
\* Largest number of full batches of a bulk document.
MaxBatches == 2

(***************************************************************************)
(* Program constants.                                                      *)
(***************************************************************************)
max_retries == 3
batch_size == 1000

(***************************************************************************)
(* JSON / Python values.  Every value is a record tagged by its type.      *)
(***************************************************************************)
Null == [t |-> "null"]
NaN == [t |-> "nan"]
Str(s) == [t |-> "str", s |-> s]
IntV(n) == [t |-> "int", n |-> n]
\* A float, held in hundredths (3.50 is FloatV(350)).
FloatV(c) == [t |-> "float", c |-> c]
List(xs) == [t |-> "list", xs |-> xs]
\* A dict that keeps its insertion order: a sequence of <<key, value>>.
Dict(items) == [t |-> "dict", items |-> items]
\* pd.Timestamp.today(), one value per run.
Timestamp == [t |-> "timestamp", iso |-> "2025-01-01T00:00:00.000000"]

Secrets == {"SUPABASE_URL", "SUPABASE_KEY", "FLASHFOOD_API_KEY"}
\* os.getenv gives None (unset), "" (empty) or a non-empty string (set).
EnvValues == {"unset", "empty", "set"}
\* Python truthiness of an os.getenv result.
EnvTruthy(v) == v = "set"

(***************************************************************************)
(* Field names.  str.lower() on the column index.                          *)
(***************************************************************************)
lower(k) ==
    CASE k = "originalPrice" -> "originalprice"
      [] k = "bestBeforeDate" -> "bestbeforedate"
      [] k = "quantityAvailable" -> "quantityavailable"
      [] k = "imageGallery" -> "imagegallery"
      [] OTHER -> k

(***************************************************************************)
(* Python semantics used by the script.                                    *)
(***************************************************************************)
\* bool(v): the truth value Python gives a value (nan is a non-zero float).
Truthy(v) ==
    CASE v.t = "null" -> FALSE
      [] v.t = "str" -> v.s # ""
      [] v.t = "int" -> v.n # 0
      [] v.t = "float" -> v.c # 0
      [] v.t = "list" -> Len(v.xs) > 0
      [] v.t = "dict" -> Len(v.items) > 0
      [] OTHER -> TRUE

\* d.get(k, default) on an ordered dict.
Get(d, k, default) ==
    IF \E i \in 1..Len(d.items) : d.items[i][1] = k
    THEN d.items[CHOOSE i \in 1..Len(d.items) : d.items[i][1] = k][2]
    ELSE default

(***************************************************************************)
(* The documents the API may answer with.                                  *)
(***************************************************************************)
SeqsUpTo(S, n) == UNION {[1..k -> S] : k \in 0..n}

Base == "name" :> Str("milk")

\* The one field a small product adds to Base.
FieldOptions ==
    { <<"price", Str("3.50")>>, <<"price", Str("abc")>>,
      <<"originalPrice", Str("abc")>>,
      <<"bestBeforeDate", IntV(1700000000)>>, <<"bestBeforeDate", Str("abc")>>,
      <<"quantityAvailable", Str("5")>>, <<"quantityAvailable", Str("many")>>,
      <<"imageGallery", List(<<Str("a.png"), Str("b.png")>>)>>,
      <<"imageGallery", List(<<>>)>>,
      <<"imageGallery", Str("a.png")>>,
      <<"imageGallery", Str("")>>,
      <<"imageGallery", Null>> }

\* The product of the spec's scenario: {"price": "3.50", "bestBeforeDate": 1700000000}.
ScenarioProduct == ("price" :> Str("3.50")) @@ ("bestBeforeDate" :> IntV(1700000000))

Products == {Base} \cup {(o[1] :> o[2]) @@ Base : o \in FieldOptions} \cup {ScenarioProduct}

Doc(stores) == Dict(<< <<"data", stores>> >>)

\* The store mappings built around one product list L: a non-list entry
\* before the list, and L split over two stores.
StoreShapes(L) ==
    { Dict(<< <<"store1", Null>>, <<"store2", List(L)>> >>) }
    \cup { Dict(<< <<"store1", List(SubSeq(L, 1, j))>>,
                   <<"store2", List(SubSeq(L, j + 1, Len(L)))>> >>)
           : j \in (IF L = <<>> THEN {0} ELSE 1..Len(L)) }

SmallDocs == { Doc(s) : s \in UNION { StoreShapes(L) : L \in SeqsUpTo(Products, MaxProducts) } }

\* Documents whose store mapping holds no list at all, or is absent, empty or null.
StructuralDocs ==
    { Null,
      Dict(<< <<"error", Str("unauthorized")>> >>),
      Doc(Dict(<<>>)), Doc(Null), Doc(List(<<>>)),
      Doc(Dict(<< <<"store1", Str("closed")>>, <<"store2", Null>> >>)) }

\* One store with N distinct products, N around the multiples of batch_size.
BulkSizes == { k * batch_size + d : k \in 1..MaxBatches, d \in {-1, 0, 1} }
BulkDoc(N) == Doc(Dict(<< <<"store1", List([i \in 1..N |-> "sku" :> IntV(i)])>> >>))
BulkDocs == { BulkDoc(N) : N \in BulkSizes }

Docs == StructuralDocs \cup SmallDocs \cup BulkDocs

(***************************************************************************)
(* Transformer: lines 102-160.                                             *)
(***************************************************************************)
RECURSIVE Flatten(_, _)
\* The loop over stores.items(): the products of every list entry, in order,
\* each stamped with the run's timestamp; a non-list entry is skipped.
Flatten(items, ts) ==
    IF items = <<>> THEN <<>>
    ELSE LET products == Head(items)[2]
             stamped == IF products.t = "list"
                        THEN [i \in 1..Len(products.xs) |->
                                 ("scraper_timestamp" :> ts) @@ products.xs[i]]
                        ELSE <<>>
         IN stamped \o Flatten(Tail(items), ts)

IsNumber(v) == v.t \in {"int", "float"}
\* pd.isna on a cell (a list is never NA).
IsNA(v) == v.t \in {"nan", "null"}

\* A column pandas holds with a numeric dtype: numbers and missing values only.
NumericCells(cells) ==
    /\ \A v \in cells : IsNumber(v) \/ IsNA(v)
    /\ \E v \in cells : IsNumber(v) \/ v.t = "nan"

\* pd.DataFrame(all_columns) followed by df.columns.str.lower(): the columns
\* are the union of the keys, a key a record lacks is NaN in its row, and a
\* None in a numeric column is NaN too.
DataFrame(recs) ==
    LET cols == UNION {{lower(k) : k \in DOMAIN recs[i]} : i \in DOMAIN recs}
        raw(r, c) == IF \E k \in DOMAIN r : lower(k) = c
                     THEN r[CHOOSE k \in DOMAIN r : lower(k) = c]
                     ELSE NaN
        numeric == {c \in cols : NumericCells({raw(recs[i], c) : i \in DOMAIN recs})}
    IN [columns |-> cols,
        rows |-> [i \in DOMAIN recs |->
                    [c \in cols |->
                        LET v == raw(recs[i], c)
                        IN IF c \in numeric /\ v.t = "null" THEN NaN ELSE v]]]

Column(df, c) == {df.rows[i][c] : i \in DOMAIN df.rows}

\* strftime('%Y-%m-%dT%H:%M:%S.%fZ') of a timestamp cell.
strftime(v) == IF v.t = "timestamp" THEN Str(v.iso \o "Z") ELSE NaN

\* The strings Python parses as numbers, with their values.
FloatLiterals == "3.50" :> FloatV(350)
IntLiterals == "5" :> IntV(5)

\* pd.to_numeric(..., errors='coerce') on one cell: an unparsable value is NaN.
to_numeric(v) ==
    CASE v.t = "float" -> v
      [] v.t = "int" -> v
      [] v.t = "str" -> IF v.s \in DOMAIN FloatLiterals THEN FloatLiterals[v.s]
                        ELSE IF v.s \in DOMAIN IntLiterals THEN IntLiterals[v.s]
                        ELSE NaN
      [] OTHER -> NaN

\* astype('int64') on one cell raises on a missing or unparsable value.
CanCastInt(v) ==
    CASE v.t = "int" -> TRUE
      [] v.t = "float" -> TRUE
      [] v.t = "str" -> v.s \in DOMAIN IntLiterals
      [] OTHER -> FALSE

astype_int64(v) ==
    CASE v.t = "int" -> v
      [] v.t = "float" -> IntV(v.c \div 100)
      [] v.t = "str" -> IntLiterals[v.s]

\* The lambda of lines 155-157.
NormalizeGallery(x) == IF x.t = "list" THEN x ELSE IF Truthy(x) THEN List(<<x>>) ELSE List(<<>>)

\* The conversion lines 137-157 apply to the cells of column c.
ConvertCell(c, v) ==
    CASE c = "scraper_timestamp" -> strftime(v)
      [] c \in {"originalprice", "price"} -> to_numeric(v)
      [] c \in {"bestbeforedate", "quantityavailable"} -> astype_int64(v)
      [] c = "imagegallery" -> NormalizeGallery(v)
      [] OTHER -> v

\* Lines 148-151 raise when a cell of either column cannot be cast.
CastRaises(df) ==
    \E c \in {"bestbeforedate", "quantityavailable"} \cap df.columns :
        \E v \in Column(df, c) : ~CanCastInt(v)

\* Lines 137-157: each conversion is applied to its column when the column
\* is present; the other columns pass through.  Used when nothing raises.
Convert(df) ==
    [df EXCEPT !.rows = [n \in DOMAIN df.rows |->
                           [c \in df.columns |-> ConvertCell(c, df.rows[n][c])]]]

\* Line 160: df.where(pd.notna(df), None).to_dict('records').  A NaN of an
\* object column becomes None; a NaN of a numeric column becomes None in
\* pandas < 1.3 and stays NaN in later versions (keepNaN).
ToRecords(df, keepNaN) ==
    LET numeric == {c \in df.columns : NumericCells(Column(df, c))}
    IN [i \in DOMAIN df.rows |->
          [c \in df.columns |->
              LET v == df.rows[i][c]
              IN IF IsNA(v)
                 THEN (IF keepNaN /\ c \in numeric THEN NaN ELSE Null)
                 ELSE v]]

(***************************************************************************)
(* Startup, fetcher and loader helpers.                                    *)
(***************************************************************************)
\* Mutant: the API key is not validated.
CredentialsMissing_NoApiKeyCheck(e) ==
    ~EnvTruthy(e["SUPABASE_URL"]) \/ ~EnvTruthy(e["SUPABASE_KEY"])

\* Lines 28-31: a secret that is unset or empty is missing.
CredentialsMissing(e) ==
    \/ ~EnvTruthy(e["SUPABASE_URL"]) \/ ~EnvTruthy(e["SUPABASE_KEY"])
    \/ ~EnvTruthy(e["FLASHFOOD_API_KEY"])

\* Line 58: for attempt in range(max_retries).
InRange(a) == a < max_retries

\* Mutant: the last failed attempt is retried as well instead of re-raised.
ShouldRetry_OffByOne(a) == a < max_retries

\* Line 66: a failed attempt is retried unless it is the last one.
ShouldRetry(a) == a < max_retries - 1

\* Line 67.
wait_time(a) == 2 ^ a

\* Mutant: only a None store mapping is rejected.
NoStores_OnlyNone(doc) == Get(doc, "data", Dict(<<>>)) = Null

\* Lines 95-97: stores = data_res.get('data', {}); not stores.
NoStores(doc) == ~Truthy(Get(doc, "data", Dict(<<>>)))

Min(a, b) == IF a < b THEN a ELSE b

\* Mutant: the slice stops one record early.
Batch_DropsLast(d, k) == SubSeq(d, k + 1, Min(k + batch_size - 1, Len(d)))

\* Line 175: data[k:k + batch_size].
Batch(d, k) == SubSeq(d, k + 1, Min(k + batch_size, Len(d)))

\* Mutant: a failed batch is attempted again.
NextIndex_RetryFailed(k, ok) == IF ok THEN k + batch_size ELSE k

\* Line 174: the next value of range(0, len(data), batch_size) after an insert,
\* whether it succeeded or failed.
NextIndex(k, ok) == k + batch_size

\* Mutant: the errors do not reach the exit status.
ExitStatus_IgnoresErrors(errs) == 0

\* Lines 196-205.
ExitStatus(errs) == IF errs # <<>> THEN 1 ELSE 0

(***************************************************************************)
(* State.                                                                  *)
(***************************************************************************)
VARIABLES
    env,            \* os.getenv of each secret, after load_dotenv
    pc,             \* the part of the script that runs next
    exit_status,    \* the process's exit status, once pc = "exited"
    raised,         \* the uncaught exception that ended the run, or "none"
    attempt,        \* the loop variable of the fetch loop
    gets,           \* the rq.get calls issued, each with its outcome
    sleeps,         \* the sleep(wait_time) calls made, in order
    data_res,       \* the fetched document, None before
    data,           \* the records handed to the loader
    i,              \* the loop variable of the batch loop
    total_inserted,
    errors,
    inserts         \* the insert(batch).execute() calls made, in order

vars == <<env, pc, exit_status, raised, attempt, gets, sleeps, data_res, data,
          i, total_inserted, errors, inserts>>

fetchVars == <<attempt, gets, sleeps, data_res>>
loadVars == <<data, i, total_inserted, errors, inserts>>

Init ==
    /\ env \in [Secrets -> EnvValues]
    /\ pc = "config"
    /\ exit_status = 0
    /\ raised = "none"
    /\ attempt = 0
    /\ gets = <<>>
    /\ sleeps = <<>>
    /\ data_res = Null
    /\ data = <<>>
    /\ i = 0
    /\ total_inserted = 0
    /\ errors = <<>>
    /\ inserts = <<>>

\* exit(code).
Exit(code) == pc' = "exited" /\ exit_status' = code /\ raised' = "none"

\* An exception nothing catches: a traceback and exit status 1.
Raise(exc) == pc' = "exited" /\ exit_status' = 1 /\ raised' = exc

Goto(label) == pc' = label /\ UNCHANGED <<exit_status, raised>>

\* Lines 20-34.
Configure ==
    /\ pc = "config"
    /\ IF CredentialsMissing(env) THEN Raise("ValueError") ELSE Goto("fetch")
    /\ UNCHANGED <<env, fetchVars, loadVars>>

\* Lines 58-87: one iteration of the retry loop.  The GET answers with a
\* document of D, raises a RequestException, or raises anything else.
FetchFrom(D) ==
    /\ pc = "fetch"
    /\ InRange(attempt)
    /\ \E outcome \in {"ok", "RequestException", "Exception"} :
        /\ gets' = Append(gets, outcome)
        /\ CASE outcome = "ok" ->
                  /\ \E doc \in D : data_res' = doc
                  /\ Goto("validate")
                  /\ UNCHANGED <<attempt, sleeps>>
             [] outcome = "RequestException" ->
                  IF ShouldRetry(attempt)
                  THEN /\ sleeps' = Append(sleeps, wait_time(attempt))
                       /\ attempt' = attempt + 1
                       /\ Goto(IF InRange(attempt + 1) THEN "fetch" ELSE "validate")
                       /\ UNCHANGED data_res
                  ELSE /\ Raise("RequestException")
                       /\ UNCHANGED <<attempt, sleeps, data_res>>
             [] outcome = "Exception" ->
                  /\ Raise("Exception")
                  /\ UNCHANGED <<attempt, sleeps, data_res>>
    /\ UNCHANGED <<env, loadVars>>

Fetch == FetchFrom(Docs)

\* The same loop when the API answers with the hand-built documents only.
FetchSmall == FetchFrom(StructuralDocs \cup SmallDocs)

\* Lines 90-100.
Validate ==
    /\ pc = "validate"
    /\ IF data_res = Null THEN Exit(1)
       ELSE IF NoStores(data_res) THEN Exit(1)
       ELSE Goto("transform")
    /\ UNCHANGED <<env, fetchVars, loadVars>>

\* Lines 102-172.  stores.items() raises on a value that is no mapping.  On
\* an empty record list pd.DataFrame([]) has an object
\* Index (pandas < 2.0), or a RangeIndex on which .str raises (pandas >= 2.0).
Transform ==
    /\ pc = "transform"
    /\ LET stores == Get(data_res, "data", Dict(<<>>))
           all_columns == Flatten(stores.items, Timestamp)
           df == DataFrame(all_columns)
       IN IF stores.t # "dict"
          THEN Raise("AttributeError") /\ UNCHANGED data
          ELSE IF all_columns = <<>>
          THEN /\ \E rangeIndex \in BOOLEAN :
                    IF rangeIndex THEN Raise("AttributeError") ELSE Exit(0)
               /\ UNCHANGED data
          ELSE IF CastRaises(df)
          THEN Raise("ValueError") /\ UNCHANGED data
          ELSE /\ \E keepNaN \in BOOLEAN : data' = ToRecords(Convert(df), keepNaN)
               /\ Goto("load")
    /\ UNCHANGED <<env, fetchVars, i, total_inserted, errors, inserts>>

\* Lines 174-191: one iteration of the batch loop; the insert succeeds or raises.
Insert ==
    /\ pc = "load"
    /\ i < Len(data)
    /\ \E ok \in BOOLEAN :
        LET batch == Batch(data, i)
            batch_num == (i \div batch_size) + 1
        IN /\ inserts' = Append(inserts, [batch |-> batch, ok |-> ok])
           /\ IF ok
              THEN total_inserted' = total_inserted + Len(batch) /\ UNCHANGED errors
              ELSE /\ errors' = Append(errors, [batch_num |-> batch_num, msg |-> "APIError"])
                   /\ UNCHANGED total_inserted
           /\ i' = NextIndex(i, ok)
    /\ UNCHANGED <<env, pc, exit_status, raised, fetchVars, data>>

\* Lines 193-205.
Report ==
    /\ pc = "load"
    /\ i >= Len(data)
    /\ Exit(ExitStatus(errors))
    /\ UNCHANGED <<env, fetchVars, loadVars>>

Next == Configure \/ Fetch \/ Validate \/ Transform \/ Insert \/ Report

Spec == Init /\ [][Next]_vars

\* The runs over the hand-built documents.
NextSmall == Configure \/ FetchSmall \/ Validate \/ Transform \/ Insert \/ Report

SpecSmall == Init /\ [][NextSmall]_vars

(***************************************************************************)
(* Properties.                                                             *)
(***************************************************************************)
AllFailed == \A k \in 1..Len(gets) : gets[k] = "RequestException"

\* ceil(n / b).
CeilDiv(n, b) == (n + b - 1) \div b

RECURSIVE Concat(_)
\* The batches of a sequence of insert calls, joined in call order.
Concat(calls) == IF calls = <<>> THEN <<>> ELSE Head(calls).batch \o Concat(Tail(calls))

RECURSIVE InsertedRows(_)
\* The number of records in the batches whose insert succeeded.
InsertedRows(calls) ==
    IF calls = <<>> THEN 0
    ELSE (IF Head(calls).ok THEN Len(Head(calls).batch) ELSE 0) + InsertedRows(Tail(calls))

Failed(calls) == {k \in 1..Len(calls) : ~calls[k].ok}

\* The load stage has attempted all batches and the process has exited.
LoadFinished == pc = "exited" /\ data # <<>>

\* C1: a run issues at most 3 GETs and none after a successful one; when all
\* 3 fail with a request error the exception is propagated: the process has
\* exited with status 1, no document is held, nothing was transformed and no
\* insert was made.
C1_FetchBoundedAndFatal ==
    /\ Len(gets) <= 3
    /\ \A k \in 1..Len(gets) : gets[k] = "ok" => k = Len(gets)
    /\ (Len(gets) = 3 /\ AllFailed) =>
          /\ pc = "exited" /\ exit_status = 1 /\ raised = "RequestException"
          /\ data_res = Null /\ data = <<>> /\ inserts = <<>>

C1_Witness == pc = "exited" /\ Len(gets) = 3 /\ AllFailed

\* C2: when the run has used all 3 attempts and each failed with a request
\* error, the waits made between the attempts were 1, 2, 4.
C2_WaitsOneTwoFour ==
    (pc = "exited" /\ Len(gets) = 3 /\ AllFailed) => sleeps = <<1, 2, 4>>

\* C3: the insert calls made so far carry contiguous slices of the records, in
\* order, each of at most batch_size records; once all batches are attempted
\* there were ceil(N / B) calls, their concatenation is the whole list, and
\* the last holds N mod B records, or B when B divides N.
C3_BatchPartition ==
    LET N == Len(data)
        B == batch_size
    IN /\ \A k \in 1..Len(inserts) :
             Len(inserts[k].batch) >= 1 /\ Len(inserts[k].batch) <= B
       /\ Concat(inserts) = SubSeq(data, 1, Len(Concat(inserts)))
       /\ LoadFinished =>
             /\ Len(inserts) = CeilDiv(N, B)
             /\ Concat(inserts) = data
             /\ Len(inserts[Len(inserts)].batch) = (IF N % B = 0 THEN B ELSE N % B)

C3_Witness ==
    /\ LoadFinished /\ Len(data) = 2 * batch_size + 1
    /\ Len(inserts) = 3 /\ Len(inserts[3].batch) = 1

\* C4: whatever the outcomes of the inserts, the k-th insert call carries the
\* k-th batch, so every batch is attempted once, in index order; the loop
\* moves on after a failure as after a success; each failure left one error
\* entry naming its batch; and at the end every batch has been attempted.
C4_FailureNeverAborts ==
    LET N == Len(data)
    IN /\ \A k \in 1..Len(inserts) :
             inserts[k].batch = SubSeq(data, (k - 1) * batch_size + 1,
                                       Min(k * batch_size, N))
       /\ pc = "load" => i = Len(inserts) * batch_size
       /\ Len(errors) = Cardinality(Failed(inserts))
       /\ \A e \in 1..Len(errors) :
             /\ errors[e].batch_num \in Failed(inserts)
             /\ \A f \in 1..(e - 1) : errors[f].batch_num < errors[e].batch_num
       /\ LoadFinished => Len(inserts) = CeilDiv(N, batch_size)

C4_Witness ==
    /\ LoadFinished /\ Len(inserts) = 3
    /\ ~inserts[1].ok /\ inserts[2].ok /\ ~inserts[3].ok

\* C5: when the load stage has attempted all batches the exit status is 1
\* exactly when some insert failed and 0 otherwise, the inserted total is
\* the number of records in the batches inserted successfully, and there is
\* one error entry per failed batch.
C5_ExitStatusAndTotals ==
    LoadFinished =>
        /\ exit_status = (IF Failed(inserts) # {} THEN 1 ELSE 0)
        /\ total_inserted = InsertedRows(inserts)
        /\ Len(errors) = Cardinality(Failed(inserts))

\* Two batches, the first of 1000 rows inserted, the second failed.
C5_Witness ==
    /\ LoadFinished /\ Len(inserts) = 2
    /\ inserts[1].ok /\ Len(inserts[1].batch) = 1000 /\ ~inserts[2].ok
    /\ exit_status = 1 /\ total_inserted = 1000 /\ Len(errors) = 1

\* The fetched document is a mapping whose 'data' is absent or empty.
StoresAbsentOrEmpty ==
    /\ data_res # Null
    /\ \/ \A k \in 1..Len(data_res.items) : data_res.items[k][1] # "data"
       \/ \E k \in 1..Len(data_res.items) :
             /\ data_res.items[k][1] = "data"
             /\ data_res.items[k][2] \in {Dict(<<>>), List(<<>>), Null}

\* C6: once the checks on the document have run, a document whose store
\* mapping is absent or empty has ended the run with exit(1), and no
\* records were built and no insert was made.
C6_NoDataIsFatal ==
    (StoresAbsentOrEmpty /\ pc # "validate") =>
        /\ pc = "exited" /\ exit_status = 1 /\ raised = "none"
        /\ data = <<>> /\ inserts = <<>>

C6_Witness == pc = "exited" /\ data_res = Doc(Dict(<<>>))

\* The store mapping is non-empty and no entry of it contributes a record.
StoresWithoutProducts ==
    /\ data_res # Null
    /\ \E k \in 1..Len(data_res.items) :
          /\ data_res.items[k][1] = "data"
          /\ LET stores == data_res.items[k][2]
             IN /\ stores.t = "dict" /\ stores.items # <<>>
                /\ \A j \in 1..Len(stores.items) :
                      LET e == stores.items[j][2]
                      IN e.t = "list" => e.xs = <<>>

\* C7: a run whose store mapping is non-empty but yields no record exits
\* with status 0 and makes no insert.
C7_EmptyRecordSetExitsZero ==
    (StoresWithoutProducts /\ pc = "exited") => (exit_status = 0 /\ inserts = <<>>)

\* The products of the fetched document, in the order the records are built.
RawProducts ==
    IF data_res # Null /\ Get(data_res, "data", Dict(<<>>)).t = "dict"
    THEN Flatten(Get(data_res, "data", Dict(<<>>)).items, Timestamp)
    ELSE <<>>

\* What the claim says the gallery field of a product becomes.

GalleryOf(p) ==
    IF "imageGallery" \notin DOMAIN p THEN List(<<>>)
    ELSE LET x == p["imageGallery"]
         IN IF x.t = "list" THEN x
            ELSE IF x.t = "null" \/ x = Str("") THEN List(<<>>)
            ELSE List(<<x>>)

\* C8: every record handed to the loader has an image-gallery field that is
\* a list: the source list itself, a one-element list of a non-empty scalar,
\* or the empty list for a null, empty or missing source value.
C8_GalleryAlwaysList ==
    pc = "load" =>
        \A n \in 1..Len(data) :
            /\ "imagegallery" \in DOMAIN data[n]
            /\ data[n]["imagegallery"] = GalleryOf(RawProducts[n])

Unparsable(p, key) == key \in DOMAIN p /\ p[key] \in {Str("abc"), Str("many")}

\* C9: an unparsable best-before-date or quantity in any record ends the run
\* with status 1 before any insert; otherwise the run reaches the load stage
\* with all records, and an unparsable price or original price is an
\* explicit null in its record.
C9_AsymmetricCoercion ==
    LET raw == RawProducts
        strictBad == \E n \in 1..Len(raw) :
                        Unparsable(raw[n], "bestBeforeDate")
                        \/ Unparsable(raw[n], "quantityAvailable")
    IN (pc \in {"load", "exited"} /\ raw # <<>>) =>
          IF strictBad
          THEN pc = "exited" /\ exit_status = 1 /\ inserts = <<>>
          ELSE \A n \in 1..Len(raw) :
                  /\ Unparsable(raw[n], "price") =>
                        (Len(data) = Len(raw) /\ data[n]["price"] = Null)
                  /\ Unparsable(raw[n], "originalPrice") =>
                        (Len(data) = Len(raw) /\ data[n]["originalprice"] = Null)

\* C10: with any of the three secrets missing, the run ends at startup with a
\* non-zero status, and no GET and no insert is ever made.
C10_MissingSecretIsFatal ==
    (\E sec \in Secrets : env[sec] # "set") =>
        /\ gets = <<>> /\ inserts = <<>>
        /\ pc \in {"config", "exited"}
        /\ pc = "exited" => (exit_status # 0 /\ raised = "ValueError")

C10_Witness ==
    /\ pc = "exited" /\ env["FLASHFOOD_API_KEY"] = "unset"
    /\ env["SUPABASE_URL"] = "set" /\ env["SUPABASE_KEY"] = "set"

====
